---- MODULE Spec2Model ----
(***************************************************************************)
(* A model of the WebAssembly text format lexer, crates/parser/src/lexer.rs *)
(*                                                                         *)
(* Characters are Unicode code points (integers), the input is a sequence  *)
(* of characters, and the lexer's Peekable<CharIndices> is the number of   *)
(* characters it has already yielded (pos).  Offsets reported in spans and *)
(* errors are byte offsets into the UTF-8 text, as in the source.          *)
(***************************************************************************)
EXTENDS Integers, Sequences, FiniteSets, TLC

VARIABLES input, pos, frags, last, errs, okFrags

vars == <<input, pos, frags, last, errs, okFrags>>

(***************************************************************************)
(* Character literals used by the lexer.                                   *)
(***************************************************************************)
CH == [ tab |-> 9, lf |-> 10, cr |-> 13, sp |-> 32, bang |-> 33, quote |-> 34,
        hash |-> 35, dollar |-> 36, percent |-> 37, amp |-> 38, apos |-> 39,
        lparen |-> 40, rparen |-> 41, star |-> 42, plus |-> 43, minus |-> 45,
        dot |-> 46, slash |-> 47, zero |-> 48, nine |-> 57, colon |-> 58,
        semi |-> 59, lt |-> 60, eq |-> 61, gt |-> 62, question |-> 63,
        at |-> 64, A |-> 65, E |-> 69, F |-> 70, P |-> 80, Z |-> 90,
        backslash |-> 92, caret |-> 94, us |-> 95, backtick |-> 96,
        a |-> 97, e |-> 101, f |-> 102, i |-> 105, n |-> 110, p |-> 112,
        r |-> 114, t |-> 116, u |-> 117, x |-> 120, z |-> 122,
        lbrace |-> 123, bar |-> 124, rbrace |-> 125, tilde |-> 126,
        del |-> 127, eacute |-> 233 ]

\* char::is_ascii_digit
IsAsciiDigit(c) == c \in CH.zero..CH.nine

\* char::is_ascii_hexdigit
IsAsciiHexDigit(c) == c \in (CH.zero..CH.nine) \cup (CH.A..CH.F) \cup (CH.a..CH.f)

\* fn to_hex(c: char) -> u8
to_hex(c) ==
    IF c \in CH.a..CH.f THEN c - CH.a + 10
    ELSE IF c \in CH.A..CH.F THEN c - CH.A + 10
    ELSE c - CH.zero

\* fn is_idchar(c: char) -> bool
is_idchar(c) ==
    \/ c \in CH.zero..CH.nine
    \/ c \in CH.a..CH.z
    \/ c \in CH.A..CH.Z
    \/ c \in { CH.bang, CH.hash, CH.dollar, CH.percent, CH.amp, CH.apos,
               CH.star, CH.plus, CH.minus, CH.dot, CH.slash, CH.colon,
               CH.lt, CH.eq, CH.gt, CH.question, CH.at, CH.backslash,
               CH.caret, CH.us, CH.backtick, CH.bar, CH.tilde }

(***************************************************************************)
(* UTF-8: the input is a &str, so offsets count bytes, not characters.     *)
(***************************************************************************)
\* char::len_utf8
Utf8Len(c) == IF c < 128 THEN 1 ELSE IF c < 2048 THEN 2 ELSE IF c < 65536 THEN 3 ELSE 4

\* char::encode_utf8
Utf8(c) ==
    IF c < 128 THEN << c >>
    ELSE IF c < 2048 THEN << 192 + (c \div 64), 128 + (c % 64) >>
    ELSE IF c < 65536
         THEN << 224 + (c \div 4096), 128 + ((c \div 64) % 64), 128 + (c % 64) >>
    ELSE << 240 + (c \div 262144), 128 + ((c \div 4096) % 64),
            128 + ((c \div 64) % 64), 128 + (c % 64) >>

RECURSIVE Bytes(_)
\* str::as_bytes of a sequence of characters
Bytes(s) == IF s = << >> THEN << >> ELSE Utf8(Head(s)) \o Bytes(Tail(s))

RECURSIVE ByteOff(_, _)
\* the byte offset CharIndices reports for the character after the first p
ByteOff(s, p) == IF p = 0 THEN 0 ELSE ByteOff(s, p - 1) + Utf8Len(s[p])

\* Lexer::cur: the offset of the peeked character, or input.len() at the end
cur(s, p) == IF p < Len(s) THEN ByteOff(s, p) ELSE ByteOff(s, Len(s))

\* &self.input[a..b] as bytes
Slice(s, a, b) == SubSeq(Bytes(s), a + 1, b)

\* does the rest of the input after p characters start with the characters w
StartsWithAt(s, p, w) ==
    /\ p + Len(w) <= Len(s)
    /\ \A k \in 1..Len(w) : s[p + k] = w[k]

(***************************************************************************)
(* Results of the sub-scanners: the iterator position they leave behind    *)
(* and None, Some(fragment) or Err(error).                                 *)
(***************************************************************************)
RNone(p) == [pos |-> p, tag |-> "None"]
RSome(p, v) == [pos |-> p, tag |-> "Some", v |-> v]
RErr(p, e) == [pos |-> p, tag |-> "Err", e |-> e]

\* Lexer::error (the byte offset and the kind; line and column are derived)
error(at, kind, arg) == [pos |-> at, kind |-> kind, arg |-> arg]

Frag(kind, a, b, val) == [kind |-> kind, start |-> a, end |-> b, val |-> val]

(***************************************************************************)
(* Lexer::eat_char, as the test it makes: is the peeked character c?       *)
(***************************************************************************)
PeekIs(s, p, c) == p < Len(s) /\ s[p + 1] = c

(***************************************************************************)
(* Lexer::ws                                                               *)
(***************************************************************************)
\* mutant of IsWsChar: the tab is not whitespace
IsWsChar_notab(c) == c \in {CH.sp, CH.lf, CH.cr}

IsWsChar(c) == c \in {CH.sp, CH.lf, CH.cr, CH.tab}

RECURSIVE WsLoop(_, _)
WsLoop(s, p) == IF p < Len(s) /\ IsWsChar(s[p + 1]) THEN WsLoop(s, p + 1) ELSE p

\* mutant of WsStart: start is read after the loop has consumed the run
WsStart_after(s, p) == cur(s, WsLoop(s, p))

\* let start = self.cur()
WsStart(s, p) == cur(s, p)

\* the end of ws: start and end are the offsets before and after the loop
WsResult(q, start, end) ==
    IF start # end THEN RSome(q, Frag("Whitespace", start, end, << >>))
    ELSE RNone(q)

WsEnd(s, q, start) == WsResult(q, start, cur(s, q))

ws(s, p) == WsEnd(s, WsLoop(s, p), WsStart(s, p))

(***************************************************************************)
(* Lexer::comment                                                          *)
(***************************************************************************)
RECURSIVE LineLoop_cr(_, _)
\* mutant of LineLoop: a carriage return ends the line as well
LineLoop_cr(s, p) ==
    IF p >= Len(s) \/ s[p + 1] \in {CH.lf, CH.cr} THEN p ELSE LineLoop_cr(s, p + 1)

RECURSIVE LineLoop(_, _)
LineLoop(s, p) == IF p >= Len(s) \/ s[p + 1] = CH.lf THEN p ELSE LineLoop(s, p + 1)

LineEnd(s, q, start) == RSome(q, Frag("Line", start, cur(s, q), << >>))

\* mutant of BlockOpens: a `(;` inside a comment does not open another one
BlockOpens_never(s, p) == s[p + 1] = CH.lparen /\ PeekIs(s, p + 1, CH.semi) /\ p < 0

\* ch == '(' && self.eat_char(';').is_some(), after ch was taken at p
BlockOpens(s, p) == s[p + 1] = CH.lparen /\ PeekIs(s, p + 1, CH.semi)

RECURSIVE BlockLoop(_, _, _, _)
\* mutant of BlockClose: the first closer ends the comment at any depth
BlockClose_flat(s, ch, q, level, start) ==
    IF ch = CH.semi /\ PeekIs(s, q, CH.rparen)
    THEN RSome(q + 1, Frag("Block", start, cur(s, q + 1), << >>))
    ELSE BlockLoop(s, q, level, start)

\* the second if of the loop body: ch was taken, q characters are yielded
BlockClose(s, ch, q, level, start) ==
    IF ch = CH.semi /\ PeekIs(s, q, CH.rparen)
    THEN IF level - 1 = 0
         THEN RSome(q + 1, Frag("Block", start, cur(s, q + 1), << >>))
         ELSE BlockLoop(s, q + 1, level - 1, start)
    ELSE BlockLoop(s, q, level, start)

\* mutant of BlockLoop: the error is placed where the input ended
BlockLoop_here(s, p, level, start) ==
    IF p >= Len(s)
    THEN RErr(p, error(cur(s, p), "DanglingBlockComment", << >>))
    ELSE IF BlockOpens(s, p)
         THEN BlockClose(s, s[p + 1], p + 2, level + 1, start)
         ELSE BlockClose(s, s[p + 1], p + 1, level, start)

\* the while loop of the block form: p characters yielded, depth level
BlockLoop(s, p, level, start) ==
    IF p >= Len(s)
    THEN RErr(p, error(start, "DanglingBlockComment", << >>))
    ELSE IF BlockOpens(s, p)
         THEN BlockClose(s, s[p + 1], p + 2, level + 1, start)
         ELSE BlockClose(s, s[p + 1], p + 1, level, start)

comment(s, p) ==
    IF StartsWithAt(s, p, << CH.semi, CH.semi >>)
    THEN LineEnd(s, LineLoop(s, p + 2), cur(s, p))
    ELSE IF StartsWithAt(s, p, << CH.lparen, CH.semi >>)
    THEN BlockLoop(s, p + 2, 1, cur(s, p))
    ELSE RNone(p)

(***************************************************************************)
(* Fixed-width unsigned integers (u32, u64) as little-endian sequences of  *)
(* 16-bit limbs, so that checked_mul and checked_add overflow exactly      *)
(* where the machine integers do.                                          *)
(***************************************************************************)
LimbBase == 65536

RECURSIVE LimbMul(_, _, _)
\* the limbs of n * m + carry, and the carry out of the top limb
LimbMul(n, m, carry) ==
    IF n = << >> THEN [limbs |-> << >>, carry |-> carry]
    ELSE [limbs |-> << (Head(n) * m + carry) % LimbBase >>
                    \o LimbMul(Tail(n), m, (Head(n) * m + carry) \div LimbBase).limbs,
          carry |-> LimbMul(Tail(n), m, (Head(n) * m + carry) \div LimbBase).carry]

\* Some(limbs) unless the top limb carried out
Checked(r) == IF r.carry = 0 THEN << r.limbs >> ELSE << >>

\* mutant of checked_mul: the product wraps around instead of failing
checked_mul_wrapping(n, m) == << LimbMul(n, m, 0).limbs >>

\* u32::checked_mul / u64::checked_mul: << >> is None, << n >> is Some(n)
checked_mul(n, m) == Checked(LimbMul(n, m, 0))

\* u32::checked_add / u64::checked_add of a small addend
checked_add(n, d) == Checked(LimbMul(n, 1, d))

\* Option::and_then(|n| n.checked_add(d))
AndThenAdd(m, d) == IF m = << >> THEN << >> ELSE checked_add(m[1], d)

\* n.checked_mul(16).and_then(|n| n.checked_add(d))
MulAdd(n, radix, d) == AndThenAdd(checked_mul(n, radix), d)

\* `n as u32` of a u8
U32(n) == << n, 0 >>

\* a u64 zero, the start of from_str_radix
U64Zero == << 0, 0, 0, 0 >>

\* mutant of from_u32: the surrogates are taken for characters
from_u32_surrogates(n) ==
    IF n[2] > 16 THEN << >>
    ELSE << n[2] * LimbBase + n[1] >>

\* char::from_u32 of limbs << lo, hi >>: << >> is None, << c >> is Some(c)
from_u32(n) ==
    IF n[2] > 16 THEN << >>
    ELSE IF n[2] = 0 /\ n[1] \in 55296..57343 THEN << >>
    ELSE << n[2] * LimbBase + n[1] >>

(***************************************************************************)
(* Lexer::must_char, Lexer::must_eat_char, Lexer::hexdigit, Lexer::hexnum  *)
(***************************************************************************)
\* self.input.len()
InputLen(s) == ByteOff(s, Len(s))

\* mutant of must_char: the error carries the number of characters, not bytes
must_char_chars(s, p) ==
    IF p < Len(s) THEN RSome(p + 1, << ByteOff(s, p), s[p + 1] >>)
    ELSE RErr(p, error(Len(s), "UnexpectedEof", << >>))

\* Lexer::must_char: v is <<offset, char>>
must_char(s, p) ==
    IF p < Len(s) THEN RSome(p + 1, << ByteOff(s, p), s[p + 1] >>)
    ELSE RErr(p, error(InputLen(s), "UnexpectedEof", << >>))

\* mutant of MustEatCharOf: wanted and found change places in the error
MustEatCharOf_swapped(r, wanted) ==
    IF r.tag = "Err" THEN r
    ELSE IF wanted = r.v[2] THEN RSome(r.pos, r.v[1])
    ELSE RErr(r.pos, error(r.v[1], "Expected", << r.v[2], wanted >>))

MustEatCharOf(r, wanted) ==
    IF r.tag = "Err" THEN r
    ELSE IF wanted = r.v[2] THEN RSome(r.pos, r.v[1])
    ELSE RErr(r.pos, error(r.v[1], "Expected", << wanted, r.v[2] >>))

\* Lexer::must_eat_char
must_eat_char(s, p, wanted) == MustEatCharOf(must_char(s, p), wanted)

HexdigitOf(r) ==
    IF r.tag = "Err" THEN r
    ELSE IF IsAsciiHexDigit(r.v[2]) THEN RSome(r.pos, << r.v[1], to_hex(r.v[2]) >>)
    ELSE RErr(r.pos, error(r.v[1], "InvalidHexDigit", << r.v[2] >>))

\* Lexer::hexdigit: v is <<offset, value>>
hexdigit(s, p) == HexdigitOf(must_char(s, p))

RECURSIVE HexnumLoop(_, _, _, _)
\* the checked arithmetic of the loop body: m is its Option, the digit was at p
HexnumStep(s, p, m) ==
    IF m = << >> THEN RErr(p + 1, error(ByteOff(s, p), "NumberTooBig", << >>))
    ELSE HexnumLoop(s, p + 1, m[1], FALSE)

HexnumLoop(s, p, n, last_underscore) ==
    IF p >= Len(s)
    THEN [pos |-> p, tag |-> "Break", n |-> n, last_underscore |-> last_underscore]
    ELSE IF s[p + 1] = CH.us THEN HexnumLoop(s, p + 1, n, TRUE)
    ELSE IF ~IsAsciiHexDigit(s[p + 1])
    THEN [pos |-> p, tag |-> "Break", n |-> n, last_underscore |-> last_underscore]
    ELSE HexnumStep(s, p, MulAdd(n, 16, to_hex(s[p + 1])))

\* mutant of HexnumEnd: an underscore at the end of the run is let through
HexnumEnd_lax(s, l) ==
    IF l.tag = "Err" THEN l
    ELSE RSome(l.pos, l.n)

HexnumEnd(s, l) ==
    IF l.tag = "Err" THEN l
    ELSE IF l.last_underscore
    THEN RErr(l.pos, error(cur(s, l.pos), "LoneUnderscore", << >>))
    ELSE RSome(l.pos, l.n)

HexnumOf(s, d) ==
    IF d.tag = "Err" THEN d
    ELSE HexnumEnd(s, HexnumLoop(s, d.pos, U32(d.v[2]), FALSE))

\* Lexer::hexnum: v is the u32
hexnum(s, p) == HexnumOf(s, hexdigit(s, p))

(***************************************************************************)
(* Lexer::string: everything of a string literal after the leading quote.  *)
(* The state is Start(start) (started = FALSE) or String(buf) (started =   *)
(* TRUE).                                                                  *)
(***************************************************************************)
\* mutant of SimpleEscape: the apostrophe is not among the escapes
SimpleEscape_noapos(c) ==
    IF c = CH.quote THEN << CH.quote >>
    ELSE IF c = CH.t THEN << CH.tab >>
    ELSE IF c = CH.n THEN << CH.lf >>
    ELSE IF c = CH.r THEN << CH.cr >>
    ELSE IF c = CH.backslash THEN << CH.backslash >>
    ELSE << >>

\* the simple escapes: the character after the backslash and the byte pushed
SimpleEscape(c) ==
    IF c = CH.quote THEN << CH.quote >>
    ELSE IF c = CH.apos THEN << CH.apos >>
    ELSE IF c = CH.t THEN << CH.tab >>
    ELSE IF c = CH.n THEN << CH.lf >>
    ELSE IF c = CH.r THEN << CH.cr >>
    ELSE IF c = CH.backslash THEN << CH.backslash >>
    ELSE << >>

\* self.must_eat_char('}')?, after buf.extend(c.encode_utf8(..))
UnicodeClose(close, c) ==
    IF close.tag = "Err" THEN close ELSE RSome(close.pos, Utf8(c))

\* char::from_u32(n).ok_or_else(..)?: c is the Option, i the offset of the u
UnicodeChar(s, n, c, i) ==
    IF c = << >> THEN RErr(n.pos, error(i, "InvalidUnicodeValue", n.v))
    ELSE UnicodeClose(must_eat_char(s, n.pos, CH.rbrace), c[1])

\* let n = self.hexnum()?
UnicodeNum(s, n, i) ==
    IF n.tag = "Err" THEN n ELSE UnicodeChar(s, n, from_u32(n.v), i)

\* self.must_eat_char('{')?
UnicodeOpen(s, open, i) ==
    IF open.tag = "Err" THEN open ELSE UnicodeNum(s, hexnum(s, open.pos), i)

\* the \u{...} arm: p is after the u, i is the offset of the u
UnicodeEscape(s, p, i) == UnicodeOpen(s, must_eat_char(s, p, CH.lbrace), i)

\* mutant of HexEscape: the first digit is weighted by ten
HexEscape_ten(c1, d) ==
    IF d.tag = "Err" THEN d ELSE RSome(d.pos, << to_hex(c1) * 10 + d.v[2] >>)

\* the two-hex-digit arm: c1 is the first digit, d the result of hexdigit
HexEscape(c1, d) ==
    IF d.tag = "Err" THEN d ELSE RSome(d.pos, << to_hex(c1) * 16 + d.v[2] >>)

\* the match after a backslash: v is the bytes appended to buf
Escape(s, p) ==
    IF p >= Len(s) THEN RErr(p, error(InputLen(s), "UnexpectedEof", << >>))
    ELSE IF SimpleEscape(s[p + 1]) # << >> THEN RSome(p + 1, SimpleEscape(s[p + 1]))
    ELSE IF s[p + 1] = CH.u THEN UnicodeEscape(s, p + 1, ByteOff(s, p))
    ELSE IF IsAsciiHexDigit(s[p + 1]) THEN HexEscape(s[p + 1], hexdigit(s, p + 1))
    ELSE RErr(p + 1, error(ByteOff(s, p), "InvalidStringEscape", << s[p + 1] >>))

\* mutant of IsControl: DEL is not rejected
IsControl_nodel(c) == c < 32

\* (c as u32) < 0x20 || c as u32 == 0x7f
IsControl(c) == c < 32 \/ c = CH.del

RECURSIVE StringLoop(_, _, _, _, _)
\* after an escape: b is buf, esc the result of the match
StringEscaped(s, start, b, esc) ==
    IF esc.tag = "Err" THEN esc
    ELSE StringLoop(s, esc.pos, start, TRUE, b \o esc.v)

\* mutant of StringVal: the borrowed slice runs through the closing quote
StringVal_withquote(s, q, start, started, buf) ==
    RSome(q, IF started THEN buf ELSE Slice(s, start, cur(s, q)))

\* the value returned at the closing quote, which was the character before q
StringVal(s, q, start, started, buf) ==
    RSome(q, IF started THEN buf ELSE Slice(s, start, cur(s, q) - 1))

StringLoop(s, p, start, started, buf) ==
    IF p >= Len(s) THEN RErr(p, error(InputLen(s), "UnexpectedEof", << >>))
    ELSE IF s[p + 1] = CH.backslash
    THEN StringEscaped(s, start,
                       IF started THEN buf ELSE Slice(s, start, ByteOff(s, p)),
                       Escape(s, p + 1))
    ELSE IF s[p + 1] = CH.quote THEN StringVal(s, p + 1, start, started, buf)
    ELSE IF IsControl(s[p + 1])
    THEN RErr(p + 1, error(ByteOff(s, p), "InvalidStringElement", << s[p + 1] >>))
    ELSE StringLoop(s, p + 1, start, started,
                    IF started THEN buf \o Utf8(s[p + 1]) ELSE buf)

\* Lexer::string
string(s, p) == StringLoop(s, p, cur(s, p), FALSE, << >>)

(***************************************************************************)
(* skip_undescores (nested in Lexer::number): one digit run of t, starting *)
(* after i characters.  << >> is None; << r >> is Some, with r.val the     *)
(* collected string and r.i the characters the iterator has yielded.       *)
(***************************************************************************)
RECURSIVE SkipLoop_strict(_, _, _, _, _, _, _, _)
\* mutant of SkipLoop: an underscore right after an underscore ends the run
SkipLoop_strict(t, i, i0, good, lastn, last_underscore, raw, buf) ==
    IF i >= Len(t)
    THEN [i |-> i, lastn |-> lastn, last_underscore |-> last_underscore,
          raw |-> raw, buf |-> buf]
    ELSE IF t[i + 1] = CH.us /\ last_underscore
    THEN [i |-> i, lastn |-> lastn, last_underscore |-> TRUE, raw |-> raw, buf |-> buf]
    ELSE IF t[i + 1] = CH.us
    THEN SkipLoop_strict(t, i + 1, i0, good, lastn, TRUE, FALSE,
                         IF raw THEN SubSeq(t, i0 + 1, i0 + lastn) ELSE buf)
    ELSE IF t[i + 1] \notin good
    THEN [i |-> i, lastn |-> lastn, last_underscore |-> last_underscore,
          raw |-> raw, buf |-> buf]
    ELSE SkipLoop_strict(t, i + 1, i0, good, lastn + 1, FALSE, raw,
                         IF raw THEN buf ELSE Append(buf, t[i + 1]))

RECURSIVE SkipLoop(_, _, _, _, _, _, _, _)
\* the while loop: i0 is where the run began (input = it.as_str()), raw is
\* State::Raw, buf is the String of State::Collecting
SkipLoop(t, i, i0, good, lastn, last_underscore, raw, buf) ==
    IF i >= Len(t)
    THEN [i |-> i, lastn |-> lastn, last_underscore |-> last_underscore,
          raw |-> raw, buf |-> buf]
    ELSE IF t[i + 1] = CH.us
    THEN SkipLoop(t, i + 1, i0, good, lastn, TRUE, FALSE,
                  IF raw THEN SubSeq(t, i0 + 1, i0 + lastn) ELSE buf)
    ELSE IF t[i + 1] \notin good
    THEN [i |-> i, lastn |-> lastn, last_underscore |-> last_underscore,
          raw |-> raw, buf |-> buf]
    ELSE SkipLoop(t, i + 1, i0, good, lastn + 1, FALSE, raw,
                  IF raw THEN buf ELSE Append(buf, t[i + 1]))

\* mutant of SkipEnd: a trailing underscore is not rejected
SkipEnd_lax(t, i0, l) ==
    << [i |-> l.i,
        val |-> IF l.raw THEN SubSeq(t, i0 + 1, i0 + l.lastn) ELSE l.buf] >>

\* after the loop: if last_underscore { return None } and the final match
SkipEnd(t, i0, l) ==
    IF l.last_underscore THEN << >>
    ELSE << [i |-> l.i,
             val |-> IF l.raw THEN SubSeq(t, i0 + 1, i0 + l.lastn) ELSE l.buf] >>

\* mutant of skip_undescores: the sign is not put in front of the digits
skip_undescores_nosign(t, i, negative, good) ==
    IF i >= Len(t) THEN << >>
    ELSE IF t[i + 1] \notin good THEN << >>
    ELSE SkipEnd(t, i, SkipLoop(t, i + 1, i, good, 1, FALSE, ~negative,
                                IF negative THEN << t[i + 1] >> ELSE << >>))

skip_undescores(t, i, negative, good) ==
    IF i >= Len(t) THEN << >>
    ELSE IF t[i + 1] \notin good THEN << >>
    ELSE SkipEnd(t, i, SkipLoop(t, i + 1, i, good, 1, FALSE, ~negative,
                                IF negative THEN << CH.minus, t[i + 1] >> ELSE << >>))

\* char::is_ascii_digit and char::is_ascii_hexdigit as the sets they accept
DecDigits == CH.zero..CH.nine
HexDigits == (CH.zero..CH.nine) \cup (CH.A..CH.F) \cup (CH.a..CH.f)

RECURSIVE from_str_radix16(_, _)
\* one digit of from_str_radix: m is the Option of the checked arithmetic
FromStrStep(d, m) == IF m = << >> THEN << >> ELSE from_str_radix16(Tail(d), m[1])

\* u64::from_str_radix(s, 16) of a non-empty string of hex digits, starting
\* from the accumulator n: << >> is Err (overflow), << n >> is Ok(n)
from_str_radix16(d, n) ==
    IF d = << >> THEN << n >> ELSE FromStrStep(d, MulAdd(n, 16, to_hex(Head(d))))

(***************************************************************************)
(* Lexer::number: << >> is None, << v >> is Some(token value v)           *)
(***************************************************************************)
NanPrefix == << CH.n, CH.a, CH.n, CH.colon, CH.zero, CH.x >>

IntegerVal(val, hex) == [num |-> "Integer", val |-> val, hex |-> hex]
InfVal(negative) == [num |-> "Float", float |-> "Inf", negative |-> negative]
NanVal(val, negative) ==
    [num |-> "Float", float |-> "Nan", val |-> val, negative |-> negative]
FloatVal(hex, integral, decimal, exponent) ==
    [num |-> "Float", float |-> "Val", hex |-> hex, integral |-> integral,
     decimal |-> decimal, exponent |-> exponent]

\* let n = u64::from_str_radix(&to_parse, 16).ok()?
NanParsed(n, negative) == IF n = << >> THEN << >> ELSE << NanVal(n, negative) >>

\* the nan:0x arm, after skip_undescores
NanDigits(num, to_parse, negative) ==
    IF to_parse = << >> THEN << >>
    ELSE IF to_parse[1].i < Len(num) THEN << >>
    ELSE NanParsed(from_str_radix16(to_parse[1].val, U64Zero), negative)

NumberNan(num, negative) ==
    NanDigits(num, skip_undescores(num, 6, FALSE, HexDigits), negative)

\* the end of number: ex is the exponent's digit run
ExponentDigits(num, ex, hex, val, decimal) ==
    IF ex = << >> THEN << >>
    ELSE IF ex[1].i < Len(num) THEN << >>
    ELSE << FloatVal(hex, val, decimal, << ex[1].val >>) >>

\* the sign of the exponent: the marker was character i + 1 of num
ExponentSign(num, i, hex, val, decimal) ==
    IF PeekIs(num, i + 1, CH.minus)
    THEN ExponentDigits(num, skip_undescores(num, i + 2, TRUE, DecDigits), hex, val, decimal)
    ELSE IF PeekIs(num, i + 1, CH.plus)
    THEN ExponentDigits(num, skip_undescores(num, i + 2, FALSE, DecDigits), hex, val, decimal)
    ELSE ExponentDigits(num, skip_undescores(num, i + 1, FALSE, DecDigits), hex, val, decimal)

\* mutant of NumberExponent: either radix takes any of e, E, p, P as its marker
NumberExponent_any(num, i, hex, val, decimal) ==
    IF i >= Len(num) THEN << FloatVal(hex, val, decimal, << >>) >>
    ELSE IF num[i + 1] \in {CH.p, CH.P, CH.e, CH.E}
    THEN ExponentSign(num, i, hex, val, decimal)
    ELSE << >>

\* the exponent part and the final check: i characters of num are consumed
NumberExponent(num, i, hex, val, decimal) ==
    IF i >= Len(num) THEN << FloatVal(hex, val, decimal, << >>) >>
    ELSE IF (hex /\ num[i + 1] \in {CH.p, CH.P}) \/ (~hex /\ num[i + 1] \in {CH.e, CH.E})
    THEN ExponentSign(num, i, hex, val, decimal)
    ELSE << >>

\* Some(skip_undescores(&mut it, false, test_valid)?)
FractionDigits(num, d, hex, val) ==
    IF d = << >> THEN << >>
    ELSE NumberExponent(num, d[1].i, hex, val, << d[1].val >>)

\* mutant of NumberFraction: a `.` must be followed by fraction digits
NumberFraction_mandatory(num, i, hex, val, good) ==
    IF PeekIs(num, i, CH.dot)
    THEN FractionDigits(num, skip_undescores(num, i + 1, FALSE, good), hex, val)
    ELSE NumberExponent(num, i, hex, val, << >>)

\* the part after the integral digits: i characters of num are consumed
NumberFraction(num, i, hex, val, good) ==
    IF PeekIs(num, i, CH.dot)
    THEN IF i + 1 < Len(num) /\ num[i + 2] \in good
         THEN FractionDigits(num, skip_undescores(num, i + 1, FALSE, good), hex, val)
         ELSE NumberExponent(num, i + 1, hex, val, << >>)
    ELSE NumberExponent(num, i, hex, val, << >>)

\* after the integral digits val: an integer, or go on to a float
NumberIntegral(num, val, hex, good) ==
    IF val = << >> THEN << >>
    ELSE IF val[1].i >= Len(num) THEN << IntegerVal(val[1].val, hex) >>
    ELSE NumberFraction(num, val[1].i, hex, val[1].val, good)

\* mutant of NumberRadix: the 0x prefix is consumed but hex is not recorded
NumberRadix_dec(num, negative) ==
    IF StartsWithAt(num, 0, << CH.zero, CH.x >>)
    THEN NumberIntegral(num, skip_undescores(num, 2, negative, HexDigits), FALSE, HexDigits)
    ELSE NumberIntegral(num, skip_undescores(num, 0, negative, DecDigits), FALSE, DecDigits)

\* Figure out if we're a hex number or not
NumberRadix(num, negative) ==
    IF StartsWithAt(num, 0, << CH.zero, CH.x >>)
    THEN NumberIntegral(num, skip_undescores(num, 2, negative, HexDigits), TRUE, HexDigits)
    ELSE NumberIntegral(num, skip_undescores(num, 0, negative, DecDigits), FALSE, DecDigits)

\* mutant of NumberOf: inf and nan are matched as prefixes
NumberOf_prefix(num, negative) ==
    IF StartsWithAt(num, 0, << CH.i, CH.n, CH.f >>) THEN << InfVal(negative) >>
    ELSE IF num = << CH.n, CH.a, CH.n >> THEN << NanVal(<< >>, negative) >>
    ELSE IF StartsWithAt(num, 0, NanPrefix) THEN NumberNan(num, negative)
    ELSE NumberRadix(num, negative)

\* number after the sign is split off
NumberOf(num, negative) ==
    IF num = << CH.i, CH.n, CH.f >> THEN << InfVal(negative) >>
    ELSE IF num = << CH.n, CH.a, CH.n >> THEN << NanVal(<< >>, negative) >>
    ELSE IF StartsWithAt(num, 0, NanPrefix) THEN NumberNan(num, negative)
    ELSE NumberRadix(num, negative)

number(run) ==
    IF PeekIs(run, 0, CH.plus) THEN NumberOf(Tail(run), FALSE)
    ELSE IF PeekIs(run, 0, CH.minus) THEN NumberOf(Tail(run), TRUE)
    ELSE NumberOf(run, FALSE)

(***************************************************************************)
(* Lexer::token                                                            *)
(***************************************************************************)
\* mutant of IdLoop: the loop stops after the first identifier character
IdLoop_one(s, p) == p + 1

RECURSIVE IdLoop(_, _)
\* the while loop that consumes identifier characters
IdLoop(s, p) == IF p < Len(s) /\ is_idchar(s[p + 1]) THEN IdLoop(s, p + 1) ELSE p

\* mutant of Classify: a lone `$` counts as an identifier
Classify_dollar(n, reserved, prefix, start, end) ==
    IF n # << >> THEN Frag(n[1].num, start, end, n[1])
    ELSE IF prefix = CH.dollar /\ Len(reserved) >= 1 THEN Frag("Id", start, end, << >>)
    ELSE IF CH.a <= prefix /\ prefix <= CH.z THEN Frag("Keyword", start, end, << >>)
    ELSE Frag("Reserved", start, end, << >>)

\* the if-else chain at the end of token: n is number(reserved)
Classify(n, reserved, prefix, start, end) ==
    IF n # << >> THEN Frag(n[1].num, start, end, n[1])
    ELSE IF prefix = CH.dollar /\ Len(reserved) > 1 THEN Frag("Id", start, end, << >>)
    ELSE IF CH.a <= prefix /\ prefix <= CH.z THEN Frag("Keyword", start, end, << >>)
    ELSE Frag("Reserved", start, end, << >>)

\* mutant of RunStart: the start is taken after the first character
RunStart_next(s, p) == ByteOff(s, p + 1)

\* the start of the slice `reserved`
RunStart(s, p) == ByteOff(s, p)

\* mutant of TokenRun: the run is classified together with what follows it
TokenRun_rest(s, p, q) ==
    RSome(q, Classify(number(SubSeq(s, p + 1, Len(s))), SubSeq(s, p + 1, Len(s)), s[p + 1],
                      RunStart(s, p), cur(s, q)))

\* let reserved = &self.input[start..self.cur()], q characters yielded
TokenRun(s, p, q) ==
    RSome(q, Classify(number(SubSeq(s, p + 1, q)), SubSeq(s, p + 1, q), s[p + 1],
                      RunStart(s, p), cur(s, q)))

\* mutant of TokenString: the span leaves out the opening quote
TokenString_inner(s, at, val) ==
    IF val.tag = "Err" THEN val
    ELSE RSome(val.pos, Frag("String", at + 1, cur(s, val.pos), val.v))

\* the string arm: val is the result of string, at the offset of the quote
TokenString(s, at, val) ==
    IF val.tag = "Err" THEN val
    ELSE RSome(val.pos, Frag("String", at, cur(s, val.pos), val.v))

\* Token::LParen(&self.input[pos..pos + 1]) and Token::RParen
TokenParen(kind, p, at) == RSome(p + 1, Frag(kind, at, at + 1, << >>))

\* mutant of token: the unexpected character is consumed before the error is made
token_after(s, p) ==
    IF p >= Len(s) THEN RNone(p)
    ELSE IF s[p + 1] = CH.lparen THEN TokenParen("LParen", p, ByteOff(s, p))
    ELSE IF s[p + 1] = CH.rparen THEN TokenParen("RParen", p, ByteOff(s, p))
    ELSE IF s[p + 1] = CH.quote THEN TokenString(s, ByteOff(s, p), string(s, p + 1))
    ELSE IF ~is_idchar(s[p + 1])
    THEN RErr(p + 1, error(cur(s, p + 1), "Unexpected", << s[p + 1] >>))
    ELSE TokenRun(s, p, IdLoop(s, p))

token(s, p) ==
    IF p >= Len(s) THEN RNone(p)
    ELSE IF s[p + 1] = CH.lparen THEN TokenParen("LParen", p, ByteOff(s, p))
    ELSE IF s[p + 1] = CH.rparen THEN TokenParen("RParen", p, ByteOff(s, p))
    ELSE IF s[p + 1] = CH.quote THEN TokenString(s, ByteOff(s, p), string(s, p + 1))
    ELSE IF ~is_idchar(s[p + 1])
    THEN RErr(p, error(ByteOff(s, p), "Unexpected", << s[p + 1] >>))
    ELSE TokenRun(s, p, IdLoop(s, p))

(***************************************************************************)
(* Lexer::parse                                                            *)
(***************************************************************************)
\* match self.it.next(), after token returned k
ParseToken(s, k) ==
    IF k.tag # "None" THEN k
    ELSE IF k.pos < Len(s)
    THEN RErr(k.pos + 1, error(ByteOff(s, k.pos), "Unexpected", << s[k.pos + 1] >>))
    ELSE RNone(k.pos)

\* if let Some(comment) = self.comment()?
ParseComment(s, c) == IF c.tag # "None" THEN c ELSE ParseToken(s, token(s, c.pos))

\* mutant of ParseWs: the token scan runs where the comment scan should
ParseWs_tokenfirst(s, w) ==
    IF w.tag = "Some" THEN w ELSE ParseToken(s, token(s, w.pos))

\* if let Some(ws) = self.ws()
ParseWs(s, w) == IF w.tag = "Some" THEN w ELSE ParseComment(s, comment(s, w.pos))

parse(s, p) == ParseWs(s, ws(s, p))

\* Source::src, Comment::src, Token::src: the bytes of the fragment's slice
src(s, f) == Slice(s, f.start, f.end)

\* Result<Option<Source>, LexError> of a sub-scanner result
ParseResult(r) ==
    IF r.tag = "Err" THEN [tag |-> "Err", e |-> r.e]
    ELSE IF r.tag = "Some" THEN [tag |-> "Ok", opt |-> << r.v >>]
    ELSE [tag |-> "Ok", opt |-> << >>]

\* Result::transpose: Option<Result<Source, LexError>>
transpose(res) ==
    IF res.tag = "Err" THEN << [tag |-> "Err", e |-> res.e] >>
    ELSE IF res.opt = << >> THEN << >>
    ELSE << [tag |-> "Ok", v |-> res.opt[1]] >>

(***************************************************************************)
(* Inputs                                                                  *)
(***************************************************************************)
MaxLen == 3
MaxErrs == 2

\* the number of hexadecimal digits of u64::MAX
U64HexDigits == 16

SeqsUpTo(A, n) == UNION { [1..k -> A] : k \in 0..n }

\* a two-byte character that is neither whitespace nor an identifier character
EAcute == CH.eacute

Families ==
    { [pres |-> { << >>, << CH.lparen, CH.semi >>,
                  << CH.lparen, CH.semi, CH.lparen, CH.semi >>,
                  << CH.lparen, CH.semi, CH.lparen, CH.semi, CH.semi, CH.rparen >>,
                  << CH.sp, CH.lparen, CH.semi, CH.lparen, CH.semi, CH.lparen, CH.semi,
                     CH.semi, CH.rparen, CH.semi, CH.rparen >> },
       alpha |-> { CH.sp, CH.lf, CH.semi, CH.lparen, CH.rparen, CH.a, CH.quote, EAcute }],
      [pres |-> { << >>, << CH.dollar >> },
       alpha |-> { CH.dollar, CH.a, CH.Z, CH.zero + 1, CH.caret, CH.sp, CH.lbrace }],
      [pres |-> { << >>, << CH.minus >>, << CH.plus >>, << CH.zero + 1, CH.dot >>,
                  << CH.zero + 1, CH.e >>, << CH.zero + 1, CH.us >>,
                  << CH.minus, CH.zero + 1, CH.us >>,
                  << CH.zero + 1, CH.e, CH.minus >> },
       alpha |-> { CH.zero + 1, CH.zero + 2, CH.us, CH.dot, CH.e, CH.minus }],
      [pres |-> { << CH.zero, CH.x >>, << CH.minus, CH.zero, CH.x >>,
                  << CH.zero, CH.x, CH.zero + 1, CH.dot >>,
                  << CH.zero, CH.x, CH.zero + 1, CH.p >>,
                  << CH.zero, CH.x, CH.zero + 1, CH.e >>,
                  << CH.zero + 1 >> },
       alpha |-> { CH.zero + 1, CH.a, CH.us, CH.dot, CH.p, CH.plus }],
      [pres |-> { NanPrefix, << CH.minus >> \o NanPrefix, << CH.n, CH.a, CH.n >>,
                  << CH.i, CH.n, CH.f >>, << CH.plus, CH.i, CH.n, CH.f >>,
                  << CH.minus, CH.n, CH.a, CH.n >>, << CH.i, CH.n >>,
                  NanPrefix \o [k \in 1..U64HexDigits |-> CH.f],
                  NanPrefix \o [k \in 1..U64HexDigits |-> CH.zero],
                  << CH.minus >> \o NanPrefix \o [k \in 1..U64HexDigits |-> CH.f] },
       alpha |-> { CH.zero + 1, CH.f, CH.us, CH.colon, CH.sp }],
      [pres |-> { << >>, << CH.semi, CH.semi >>,
                  << CH.semi, CH.semi, EAcute, CH.lf, CH.lparen, CH.semi >> },
       alpha |-> { CH.cr, CH.lf, CH.tab, CH.sp, CH.semi, CH.a }],
      [pres |-> { << CH.quote >> },
       alpha |-> { CH.quote, CH.backslash, CH.n, CH.zero, CH.a, CH.lf, CH.sp }],
      [pres |-> { << CH.quote, CH.backslash, CH.u >>,
                  << CH.quote, CH.backslash, CH.u, CH.lbrace >> },
       alpha |-> { CH.lbrace, CH.rbrace, CH.zero + 1, CH.us, CH.quote, CH.sp }],
      [pres |-> { << CH.sp, CH.minus, CH.zero + 1, CH.dot, CH.zero + 2, CH.e, CH.zero + 1 >>,
                  << CH.sp, CH.quote, EAcute, CH.backslash, CH.n, CH.quote >>,
                  << CH.sp, CH.dollar, CH.a >> },
       alpha |-> { CH.sp, CH.rparen }] }

Inputs == UNION { { pre \o b : pre \in f.pres, b \in SeqsUpTo(f.alpha, MaxLen) } : f \in Families }

(***************************************************************************)
(* Inputs that begin a string literal                                      *)
(***************************************************************************)
\* every ASCII character, and one character of each longer UTF-8 width
StrChars == (0..CH.del) \cup {EAcute, 8364, 128512}

OptQuote == { << >>, << CH.quote >> }

\* a backslash and two characters: every pair of hexadecimal digits, and a
\* hexadecimal digit before a character that is none
HexEscapeInputs ==
    { << CH.quote, CH.backslash, c1, c2 >> \o tl :
        c1 \in HexDigits, c2 \in HexDigits \cup {CH.x, CH.us, CH.quote}, tl \in OptQuote }

\* a backslash and any one character
EscapeInputs ==
    { << CH.quote >> \o pre \o << CH.backslash, c >> \o tl :
        pre \in { << >>, << CH.a >>, << EAcute >> }, c \in StrChars, tl \in OptQuote }

\* any one character that is not escaped
ElementInputs ==
    { << CH.quote >> \o pre \o << c >> \o tl :
        pre \in { << >>, << EAcute >>, << CH.backslash, CH.n >> },
        c \in StrChars, tl \in OptQuote }

\* literals that the end of the input cuts short
EofInputs ==
    { << CH.quote >> \o pre \o tl :
        pre \in { << >>, << CH.a >>, << EAcute >>, << CH.sp, EAcute >> },
        tl \in { << >>, << CH.backslash >> }
                \cup { << CH.backslash, c1 >> : c1 \in HexDigits } }

UnicodePres ==
    { << >>, << CH.lbrace >>,
      << CH.lbrace, CH.a + 3, CH.zero + 7, CH.f >>,
      << CH.lbrace, CH.a + 3, CH.zero + 8, CH.zero >>,
      << CH.lbrace, CH.A + 3, CH.f, CH.f >>,
      << CH.lbrace, CH.e, CH.zero, CH.zero >>,
      << CH.lbrace, CH.zero + 1, CH.zero, CH.f, CH.f, CH.f >>,
      << CH.lbrace, CH.zero + 1, CH.zero + 1, CH.zero, CH.zero, CH.zero >>,
      << CH.lbrace >> \o [k \in 1..7 |-> CH.f],
      << CH.lbrace >> \o [k \in 1..8 |-> CH.zero],
      << CH.lbrace, CH.zero + 1, CH.us, CH.us >>,
      << CH.lbrace, CH.zero, CH.us, CH.f, CH.us >> }

UnicodeAlpha == { CH.zero, CH.f, CH.rbrace, CH.us, CH.quote, CH.x }

\* \u escapes around the limits of the scalar values and of u32
UnicodeInputs ==
    { << CH.quote, CH.backslash, CH.u >> \o pre \o b :
        pre \in UnicodePres, b \in SeqsUpTo(UnicodeAlpha, MaxLen) }

\* quotes, backslashes and text, with something after the closing quote
QuoteInputs ==
    { << CH.quote >> \o b : b \in SeqsUpTo({CH.quote, CH.backslash, CH.a, EAcute}, MaxLen + 1) }

StringInputs ==
    HexEscapeInputs \cup EscapeInputs \cup ElementInputs \cup EofInputs
    \cup UnicodeInputs \cup QuoteInputs

(***************************************************************************)
(* The lexer as a state machine                                            *)
(***************************************************************************)
\* Lexer::new
Init ==
    /\ input \in Inputs
    /\ pos = 0
    /\ frags = << >>
    /\ last = [call |-> "new"]
    /\ errs = 0
    /\ okFrags = 0

\* Lexer::new on an input that begins a string literal
StringInit ==
    /\ input \in StringInputs
    /\ pos = 0
    /\ frags = << >>
    /\ last = [call |-> "new"]
    /\ errs = 0
    /\ okFrags = 0

\* what one call does to the lexer (r is the outcome of parse) and to the
\* caller's record of what it received
Call(name, r) ==
    /\ pos' = r.pos
    /\ last' = [call |-> name,
                result |-> IF name = "next" THEN transpose(ParseResult(r))
                           ELSE ParseResult(r)]
    /\ frags' = IF r.tag = "Some" THEN Append(frags, r.v) ELSE frags
    /\ errs' = IF r.tag = "Err" THEN errs + 1 ELSE errs
    /\ okFrags' = IF errs' = 0 THEN Len(frags') ELSE okFrags
    /\ UNCHANGED input

\* pub fn parse(&mut self)
Parse ==
    /\ errs < MaxErrs
    /\ Call("parse", parse(input, pos))

\* Iterator::next
IterNext ==
    /\ errs < MaxErrs
    /\ Call("next", parse(input, pos))

Next == Parse \/ IterNext

Spec == Init /\ [][Next]_vars

StringSpec == StringInit /\ [][Next]_vars

(***************************************************************************)
(* What the caller received from the last call                             *)
(***************************************************************************)
Called == last.call # "new"

LastSome ==
    /\ Called
    /\ IF last.call = "parse"
       THEN last.result.tag = "Ok" /\ last.result.opt # << >>
       ELSE last.result # << >> /\ last.result[1].tag = "Ok"

LastNone ==
    /\ Called
    /\ IF last.call = "parse"
       THEN last.result.tag = "Ok" /\ last.result.opt = << >>
       ELSE last.result = << >>

LastErr ==
    /\ Called
    /\ IF last.call = "parse"
       THEN last.result.tag = "Err"
       ELSE last.result # << >> /\ last.result[1].tag = "Err"

LastFrag == IF last.call = "parse" THEN last.result.opt[1] ELSE last.result[1].v

LastError == IF last.call = "parse" THEN last.result.e ELSE last.result[1].e

RECURSIVE ConcatSrc(_, _)
ConcatSrc(s, fs) ==
    IF fs = << >> THEN << >> ELSE src(s, Head(fs)) \o ConcatSrc(s, Tail(fs))

(***************************************************************************)
(* C1: when the calls reach Ok(None) without any error, the concatenation  *)
(* of Source::src() of all returned fragments, in call order, is exactly   *)
(* the input.                                                              *)
(***************************************************************************)
C1_SpanCoverage ==
    (errs = 0 /\ LastNone) => ConcatSrc(input, frags) = Bytes(input)

C1_Witness == errs = 0 /\ LastNone /\ Len(frags) >= 3

(***************************************************************************)
(* C2: the fragments returned by the successful calls that precede any     *)
(* error have non-empty spans, the first starts at byte offset 0, and each *)
(* later one starts exactly where the previous one ended; this stays so    *)
(* when a later call fails.                                                *)
(***************************************************************************)
C2_Contiguous ==
    \A k \in 1..okFrags :
        /\ frags[k].start < frags[k].end
        /\ frags[k].start = IF k = 1 THEN 0 ELSE frags[k - 1].end

C2_Witness == errs > 0 /\ okFrags >= 2

(***************************************************************************)
(* C3: as long as no error is returned, a call returns Some(fragment)      *)
(* exactly when unconsumed input remained at the call and Ok(None) exactly *)
(* when the cursor had reached the end of the input; the number of         *)
(* fragments never exceeds the length of the input.                        *)
(***************************************************************************)
C3_SomeUntilEnd ==
    /\ [][errs' = 0 => /\ LastSome' <=> pos < Len(input)
                       /\ LastNone' <=> pos = Len(input)]_vars
    /\ [](errs = 0 => Len(frags) <= InputLen(input))

C3_Witness == errs = 0 /\ LastNone /\ pos = Len(input) /\ Len(frags) >= 2

(***************************************************************************)
(* C4: once a call has returned a LexError, no later call on the same      *)
(* lexer returns a fragment.                                               *)
(***************************************************************************)
C4_NoFragmentAfterError == [][errs > 0 => ~(LastSome' /\ frags' # frags)]_vars

(***************************************************************************)
(* Vocabulary of the claims about tokens                                   *)
(***************************************************************************)
TokenKinds ==
    {"LParen", "RParen", "String", "Id", "Keyword", "Reserved", "Integer", "Float"}

RunKinds == {"Id", "Keyword", "Reserved", "Integer", "Float"}

\* the number of characters before byte offset off
CharIdx(s, off) == CHOOSE p \in 0..Len(s) : ByteOff(s, p) = off

\* the characters of a fragment's span
FragChars(s, f) == SubSeq(s, CharIdx(s, f.start) + 1, CharIdx(s, f.end))

Has(r, c) == \E k \in 1..Len(r) : r[k] = c

\* the end of the maximal run of identifier characters that starts after p
RunEnd(s, p) ==
    CHOOSE q \in p..Len(s) :
        /\ \A k \in (p + 1)..q : is_idchar(s[k])
        /\ q = Len(s) \/ ~is_idchar(s[q + 1])

AtRun == pos < Len(input) /\ is_idchar(input[pos + 1])

\* the maximal run of identifier characters at the cursor
Run == SubSeq(input, pos + 1, RunEnd(input, pos))

(***************************************************************************)
(* C5 (as amended): where the input at the cursor starts with `(;` the call *)
(* returns a Block comment or fails with DanglingBlockComment, never an    *)
(* LParen; a `;` at the cursor that is not followed by another `;` fails   *)
(* with Unexpected(';') at its offset; and no token other than a String    *)
(* literal has a `;` in its span.                                          *)
(***************************************************************************)
C5_AtCursor ==
    /\ StartsWithAt(input, pos, << CH.lparen, CH.semi >>)
       => \/ LastSome' /\ LastFrag'.kind = "Block" /\ LastFrag'.start = ByteOff(input, pos)
          \/ LastErr' /\ LastError' = error(ByteOff(input, pos), "DanglingBlockComment", << >>)
    /\ (PeekIs(input, pos, CH.semi) /\ ~StartsWithAt(input, pos, << CH.semi, CH.semi >>))
       => LastErr' /\ LastError' = error(ByteOff(input, pos), "Unexpected", << CH.semi >>)

ExpectedKind(r) ==
    IF number(r) # << >> THEN number(r)[1].num
    ELSE IF r[1] = CH.dollar /\ Len(r) > 1 THEN "Id"
    ELSE IF r[1] \in CH.a..CH.z THEN "Keyword"
    ELSE "Reserved"

C7_MaximalRun ==
    \A k \in 1..Len(frags) :
        frags[k].kind \in RunKinds =>
            /\ \/ frags[k].end = InputLen(input)
               \/ ~is_idchar(input[CharIdx(input, frags[k].end) + 1])
            /\ (k < Len(frags) /\ frags[k + 1].kind \in RunKinds)
               => frags[k + 1].start # frags[k].end

C7_Witness ==
    \E k \in 1..(Len(frags) - 1) :
        /\ frags[k].kind \in RunKinds
        /\ Len(FragChars(input, frags[k])) >= 2
        /\ frags[k + 1].start = frags[k].end

(***************************************************************************)
(* Vocabulary of the claims about the numeric grammar                      *)
(***************************************************************************)
\* r without its underscores
NoUs(r) == SelectSeq(r, LAMBDA c : c # CH.us)

StripSign(r) == IF r # << >> /\ r[1] \in {CH.plus, CH.minus} THEN Tail(r) ELSE r

SignOf(r) == IF r # << >> /\ r[1] = CH.minus THEN << CH.minus >> ELSE << >>

IsHexLit(r) == StartsWithAt(StripSign(r), 0, << CH.zero, CH.x >>)

\* the literal after its sign and its 0x prefix
Body(r) == IF IsHexLit(r) THEN SubSeq(StripSign(r), 3, Len(StripSign(r))) ELSE StripSign(r)

\* the first index of t that holds a character of S, or Len(t) + 1
FirstIdx(t, S) ==
    CHOOSE k \in 1..(Len(t) + 1) :
        /\ k = Len(t) + 1 \/ t[k] \in S
        /\ \A j \in 1..(k - 1) : t[j] \notin S

ExpMarkers(r) == IF IsHexLit(r) THEN {CH.p, CH.P} ELSE {CH.e, CH.E}

HasExp(r) == FirstIdx(Body(r), ExpMarkers(r)) <= Len(Body(r))

Mantissa(r) == SubSeq(Body(r), 1, FirstIdx(Body(r), ExpMarkers(r)) - 1)

ExpPart(r) == SubSeq(Body(r), FirstIdx(Body(r), ExpMarkers(r)) + 1, Len(Body(r)))

IntPart(r) == SubSeq(Mantissa(r), 1, FirstIdx(Mantissa(r), {CH.dot}) - 1)

FracPart(r) == SubSeq(Mantissa(r), FirstIdx(Mantissa(r), {CH.dot}) + 1, Len(Mantissa(r)))

\* r with every group of adjacent underscores replaced by one underscore
Collapse(r) ==
    LET keep == { k \in 1..Len(r) : ~(r[k] = CH.us /\ k > 1 /\ r[k - 1] = CH.us) }
        idx(n) == CHOOSE k \in keep : Cardinality({ j \in keep : j <= k }) = n
    IN [n \in 1..Cardinality(keep) |-> r[idx(n)]]

HasDoubleUs(r) == \E k \in 1..(Len(r) - 1) : r[k] = CH.us /\ r[k + 1] = CH.us

\* the digits of the literal's radix
RadixDigits(r) ==
    IF IsHexLit(NoUs(r)) \/ StartsWithAt(StripSign(NoUs(r)), 0, NanPrefix)
    THEN HexDigits ELSE DecDigits

\* an underscore of r that does not have a digit or an underscore on both sides
BadUnderscore(r) ==
    \E k \in 1..Len(r) :
        /\ r[k] = CH.us
        /\ \/ k = 1
           \/ k = Len(r)
           \/ r[k - 1] \notin RadixDigits(r) \cup {CH.us}
           \/ r[k + 1] \notin RadixDigits(r) \cup {CH.us}

\* the token a run classifies as, by kind and value
TokenOf(r) == Classify(number(r), r, r[1], 0, 0)

C9_EdgeUnderscore ==
    [][(AtRun /\ number(NoUs(Run)) # << >> /\ BadUnderscore(Run)) =>
         /\ LastSome'
         /\ LastFrag'.kind \in {"Reserved", "Keyword"}
         /\ FragChars(input, LastFrag') = Run]_vars

C9_Witness ==
    /\ LastSome
    /\ LastFrag.kind \in {"Reserved", "Keyword"}
    /\ number(NoUs(FragChars(input, LastFrag))) # << >>
    /\ BadUnderscore(FragChars(input, LastFrag))
    /\ FragChars(input, LastFrag)[1] # CH.us
    /\ Has(FragChars(input, LastFrag), CH.dot) \/ Has(FragChars(input, LastFrag), CH.e)

(***************************************************************************)
(* C10: the digit strings of every Integer and Float token (Integer val,   *)
(* Float integral, decimal, exponent) hold no `_` and are the digits of    *)
(* the corresponding part of the source in the same order, with a `-` in   *)
(* front exactly when that part's sign is `-`; the literal's own sign is   *)
(* carried by the integral digits.                                         *)
(***************************************************************************)
DigitsOfInteger(r) == SignOf(r) \o NoUs(Body(r))

DigitsOfFloat(r) ==
    [integral |-> SignOf(r) \o NoUs(IntPart(r)),
     decimal |-> IF FracPart(r) = << >> THEN << >> ELSE << NoUs(FracPart(r)) >>,
     exponent |-> IF HasExp(r)
                  THEN << SignOf(ExpPart(r)) \o NoUs(StripSign(ExpPart(r))) >>
                  ELSE << >>]

C10_Digits ==
    \A k \in 1..Len(frags) :
        LET f == frags[k]
            r == FragChars(input, f)
        IN /\ f.kind = "Integer" =>
                /\ f.val.val = DigitsOfInteger(r)
                /\ ~Has(f.val.val, CH.us)
           /\ (f.kind = "Float" /\ f.val.float = "Val") =>
                /\ f.val.integral = DigitsOfFloat(r).integral
                /\ f.val.decimal = DigitsOfFloat(r).decimal
                /\ f.val.exponent = DigitsOfFloat(r).exponent
                /\ ~Has(f.val.integral, CH.us)
                /\ \A d \in 1..Len(f.val.decimal) : ~Has(f.val.decimal[d], CH.us)
                /\ \A d \in 1..Len(f.val.exponent) : ~Has(f.val.exponent[d], CH.us)

C10_Witness ==
    \E k \in 1..Len(frags) :
        /\ frags[k].kind = "Float"
        /\ frags[k].val.float = "Val"
        /\ frags[k].val.exponent # << >>
        /\ \/ frags[k].val.integral[1] = CH.minus
           \/ frags[k].val.exponent[1][1] = CH.minus
        /\ Has(FragChars(input, frags[k]), CH.us)

(***************************************************************************)
(* Vocabulary of the claims about integers and floats                      *)
(***************************************************************************)
\* a digit run as the lexer accepts it: it starts with a digit of D, holds
\* only digits of D and underscores, and does not end with an underscore
ValidDigitRun(r, D) ==
    /\ r # << >>
    /\ r[1] \in D
    /\ r[Len(r)] # CH.us
    /\ \A k \in 1..Len(r) : r[k] \in D \cup {CH.us}

\* the digits of the literal's radix, selected by its 0x prefix
LitDigits(r) == IF IsHexLit(r) THEN HexDigits ELSE DecDigits

(***************************************************************************)
(* C11: a run is returned as Integer exactly when, after an optional sign  *)
(* and an optional `0x` prefix, all that remains is one digit run of the   *)
(* selected radix (starting with a digit, holding digits and underscores,  *)
(* not ending with an underscore); the Integer's hex flag is set exactly   *)
(* when the `0x` prefix is there, and its src is the whole run with sign   *)
(* and prefix.                                                             *)
(***************************************************************************)
C11_Integer ==
    [][AtRun =>
         /\ LastSome'
         /\ LastFrag'.kind = "Integer" <=> ValidDigitRun(Body(Run), LitDigits(Run))
         /\ LastFrag'.kind = "Integer" =>
              /\ LastFrag'.val.hex <=> IsHexLit(Run)
              /\ src(input, LastFrag') = Bytes(Run)]_vars

C11_Witness ==
    /\ LastSome
    /\ LastFrag.kind = "Integer"
    /\ LastFrag.val.hex
    /\ FragChars(input, LastFrag)[1] = CH.minus
    /\ Has(FragChars(input, LastFrag), CH.a)

HasDot(r) == FirstIdx(Mantissa(r), {CH.dot}) <= Len(Mantissa(r))

\* the shape of a float: integral digits, then a `.` with optional fraction
\* digits, then the radix's exponent marker with an optional sign and
\* decimal digits; at least one of the `.` and the exponent is there
FloatShape(r) ==
    /\ ValidDigitRun(IntPart(r), LitDigits(r))
    /\ HasDot(r) => (FracPart(r) = << >> \/ ValidDigitRun(FracPart(r), LitDigits(r)))
    /\ HasExp(r) => ValidDigitRun(StripSign(ExpPart(r)), DecDigits)
    /\ HasDot(r) \/ HasExp(r)

IsFloatVal(f) == f.kind = "Float" /\ f.val.float = "Val"

IsNanPayloadRun(r) == StartsWithAt(StripSign(r), 0, NanPrefix)

(***************************************************************************)
(* C12: a Float has an exponent exactly when the run has the float shape   *)
(* with the exponent marker of its radix (`e`/`E` decimal, `p`/`P` hex)    *)
(* followed by an optional sign and a run of decimal digits; a run whose   *)
(* marker is not followed by such a run (`1e`, `0x1p-`, `0x1pa`), and a    *)
(* decimal run with a `p` marker (`1p3`), is not a number but is returned  *)
(* as a token of another kind, with no error.                              *)
(***************************************************************************)
C12_Exponent ==
    [][AtRun =>
         /\ LastSome'
         /\ (IsFloatVal(LastFrag') /\ LastFrag'.val.exponent # << >>)
            <=> (FloatShape(Run) /\ HasExp(Run))
         /\ (/\ ~IsNanPayloadRun(Run)
             /\ HasExp(Run)
             /\ ~ValidDigitRun(StripSign(ExpPart(Run)), DecDigits))
            => LastFrag'.kind \in {"Id", "Keyword", "Reserved"}
         /\ (~IsHexLit(Run) /\ (Has(Run, CH.p) \/ Has(Run, CH.P)))
            => LastFrag'.kind \in {"Id", "Keyword", "Reserved"}]_vars

C12_Witness ==
    /\ LastSome
    /\ LastFrag.kind = "Reserved"
    /\ IsHexLit(FragChars(input, LastFrag))
    /\ HasExp(FragChars(input, LastFrag))
    /\ ValidDigitRun(Mantissa(FragChars(input, LastFrag)), HexDigits)
    /\ ExpPart(FragChars(input, LastFrag)) = << CH.a >>

\* exactly inf or nan, or nan:0x with something after it, after the sign
IsSpecialForm(r) ==
    \/ StripSign(r) \in { << CH.i, CH.n, CH.f >>, << CH.n, CH.a, CH.n >> }
    \/ IsNanPayloadRun(r)

(***************************************************************************)
(* C13: a run is a Float value exactly when it has the float shape: the    *)
(* integral digits are mandatory and the fraction digits after the `.` are *)
(* optional, so `D.` and `D.eN` are Floats with decimal = None, while a    *)
(* run without a valid integral digit run before the `.` (`.5`) is not a   *)
(* number; a run of which something is left after integral, fraction and   *)
(* exponent is not a number either, and no error is raised.                *)
(***************************************************************************)
C13_FloatShape ==
    [][AtRun =>
         /\ LastSome'
         /\ IsFloatVal(LastFrag') <=> FloatShape(Run)
         /\ IsFloatVal(LastFrag') =>
              /\ LastFrag'.val.decimal = << >> <=> FracPart(Run) = << >>
              /\ LastFrag'.val.hex <=> IsHexLit(Run)
              /\ src(input, LastFrag') = Bytes(Run)
         /\ (~IsSpecialForm(Run) /\ ~ValidDigitRun(IntPart(Run), LitDigits(Run)))
            => LastFrag'.kind \in {"Id", "Keyword", "Reserved"}
         /\ LastFrag'.kind \in {"Integer", "Float"}
            => \/ ValidDigitRun(Body(Run), LitDigits(Run))
               \/ FloatShape(Run)
               \/ IsSpecialForm(Run)]_vars

C13_Witness ==
    /\ LastSome
    /\ IsFloatVal(LastFrag)
    /\ LastFrag.val.decimal = << >>
    /\ LastFrag.val.exponent # << >>
    /\ HasDot(FragChars(input, LastFrag))

(***************************************************************************)
(* Vocabulary of the claims about inf and nan                              *)
(***************************************************************************)
\* what follows nan:0x
Payload(r) == SubSeq(StripSign(r), Len(NanPrefix) + 1, Len(StripSign(r)))

HexVal(c) ==
    IF c \in CH.zero..CH.nine THEN c - CH.zero
    ELSE IF c \in CH.A..CH.F THEN c - CH.A + 10
    ELSE c - CH.a + 10

\* d without its leading zeros
StripZeros(d) == SubSeq(d, FirstIdx(d, HexDigits \ {CH.zero}), Len(d))

\* the digits of a payload: no underscores, no leading zeros
PayloadDigits(r) == StripZeros(NoUs(Payload(r)))

\* the value is at most 2^64 - 1
FitsU64(r) == Len(PayloadDigits(r)) <= U64HexDigits

\* the value of the n-th hexadecimal digit of d counted from the right
DigitFromRight(d, n) == IF n <= Len(d) THEN HexVal(d[Len(d) - n + 1]) ELSE 0

\* the value of d, four hexadecimal digits to each 16-bit limb
Magnitude(d) ==
    [j \in 1..4 |-> DigitFromRight(d, 4 * j - 3) + 16 * DigitFromRight(d, 4 * j - 2)
                    + 256 * DigitFromRight(d, 4 * j - 1) + 4096 * DigitFromRight(d, 4 * j)]

IsNegative(r) == r[1] = CH.minus

(***************************************************************************)
(* C14: after an optional sign, a run that is exactly `inf` is the Float   *)
(* Inf, exactly `nan` is the Float Nan without payload, and `nan:0x`       *)
(* followed by a hexadecimal digit run (whose value fits 64 bits) and      *)
(* nothing else is the Float Nan with a payload; negative is set exactly   *)
(* when the sign is `-`; no other run (`inff`, `nan:`, `nan:0x`) is one of *)
(* these floats.                                                           *)
(***************************************************************************)
C14_InfNan ==
    [][AtRun =>
         /\ LastSome'
         /\ (LastFrag'.kind = "Float" /\ LastFrag'.val.float = "Inf")
            <=> StripSign(Run) = << CH.i, CH.n, CH.f >>
         /\ (LastFrag'.kind = "Float" /\ LastFrag'.val.float = "Nan"
             /\ LastFrag'.val.val = << >>)
            <=> StripSign(Run) = << CH.n, CH.a, CH.n >>
         /\ (LastFrag'.kind = "Float" /\ LastFrag'.val.float = "Nan"
             /\ LastFrag'.val.val # << >>)
            <=> (/\ IsNanPayloadRun(Run)
                 /\ ValidDigitRun(Payload(Run), HexDigits)
                 /\ FitsU64(Run))
         /\ (LastFrag'.kind = "Float" /\ LastFrag'.val.float \in {"Inf", "Nan"})
            => /\ LastFrag'.val.negative <=> IsNegative(Run)
               /\ src(input, LastFrag') = Bytes(Run)]_vars

C14_Witness ==
    /\ LastSome
    /\ LastFrag.kind = "Float"
    /\ LastFrag.val.float = "Nan"
    /\ LastFrag.val.val # << >>
    /\ LastFrag.val.negative
    /\ Has(FragChars(input, LastFrag), CH.us)

(***************************************************************************)
(* C15: a `nan:0x` payload that is a hexadecimal digit run whose value     *)
(* does not fit 64 bits raises no error: the run is returned as Keyword,   *)
(* or as Reserved when it has a sign; every payload whose value is at most *)
(* 2^64 - 1, however many leading zeros it has, is the Float Nan with      *)
(* exactly that magnitude.                                                 *)
(***************************************************************************)
C15_NanPayload ==
    [][(AtRun /\ IsNanPayloadRun(Run) /\ ValidDigitRun(Payload(Run), HexDigits)) =>
         /\ LastSome'
         /\ src(input, LastFrag') = Bytes(Run)
         /\ ~FitsU64(Run) =>
              LastFrag'.kind = IF Run[1] \in {CH.plus, CH.minus} THEN "Reserved" ELSE "Keyword"
         /\ FitsU64(Run) =>
              /\ LastFrag'.kind = "Float"
              /\ LastFrag'.val.float = "Nan"
              /\ LastFrag'.val.val = << Magnitude(PayloadDigits(Run)) >>]_vars

\* an overflowing signed payload came back as Reserved
C15_Witness ==
    /\ LastSome
    /\ LastFrag.kind = "Reserved"
    /\ IsNanPayloadRun(FragChars(input, LastFrag))
    /\ ValidDigitRun(Payload(FragChars(input, LastFrag)), HexDigits)
    /\ Len(PayloadDigits(FragChars(input, LastFrag))) = U64HexDigits + 1

(***************************************************************************)
(* Vocabulary of the claims about comments and whitespace                  *)
(***************************************************************************)
Opener == << CH.lparen, CH.semi >>

Closer == << CH.semi, CH.rparen >>

IsPlain(c) == c \notin {CH.lparen, CH.semi, CH.rparen}

RECURSIVE IsNested(_), IsItems(_)
\* a block comment whose inner comments are properly nested: `(;`, then
\* plain characters and properly nested comments, then `;)`
IsNested(t) ==
    /\ Len(t) >= 4
    /\ SubSeq(t, 1, 2) = Opener
    /\ SubSeq(t, Len(t) - 1, Len(t)) = Closer
    /\ IsItems(SubSeq(t, 3, Len(t) - 2))

IsItems(t) ==
    \/ t = << >>
    \/ IsPlain(t[1]) /\ IsItems(Tail(t))
    \/ \E k \in 4..Len(t) : IsNested(SubSeq(t, 1, k)) /\ IsItems(SubSeq(t, k + 1, Len(t)))

AtBlock == StartsWithAt(input, pos, Opener)

(***************************************************************************)
(* C16: where the input at the cursor is a block comment whose inner `(;`  *)
(* ... `;)` pairs are properly nested, the call returns one Block fragment *)
(* that spans from the opening `(;` through the `;)` matching it; the `;)` *)
(* of an inner comment does not end the outer one.                         *)
(***************************************************************************)
C16_NestedBlock ==
    [][AtBlock =>
         \A q \in (pos + 4)..Len(input) :
             IsNested(SubSeq(input, pos + 1, q)) =>
                 /\ LastSome'
                 /\ frags' = Append(frags, LastFrag')
                 /\ LastFrag'.kind = "Block"
                 /\ LastFrag'.start = ByteOff(input, pos)
                 /\ LastFrag'.end = ByteOff(input, q)]_vars

\* a Block fragment that holds a comment inside a comment, not at offset 0
C16_Witness ==
    /\ LastSome
    /\ LastFrag.kind = "Block"
    /\ LastFrag.start > 0
    /\ IsNested(FragChars(input, LastFrag))
    /\ \E a \in 3..Len(FragChars(input, LastFrag)) :
         \E b \in (a + 5)..(Len(FragChars(input, LastFrag)) - 2) :
             IsNested(SubSeq(FragChars(input, LastFrag), a, b))

\* the two characters of s at indexes j and j + 1 are w
PairAt(s, j, w) == j + 1 <= Len(s) /\ s[j] = w[1] /\ s[j + 1] = w[2]

\* the depth after the first q characters of s, counted for the comment that
\* opens after p: +1 for every `(;` and -1 for every `;)` among them
NaiveDepth(s, p, q) ==
    Cardinality({ j \in (p + 1)..(q - 1) : PairAt(s, j, Opener) })
    - Cardinality({ j \in (p + 1)..(q - 1) : PairAt(s, j, Closer) })

\* the same, but a `;)` whose `;` belongs to a `(;` before it does not count
ScanDepth(s, p, q) ==
    Cardinality({ j \in (p + 1)..(q - 1) : PairAt(s, j, Opener) })
    - Cardinality({ j \in (p + 1)..(q - 1) : PairAt(s, j, Closer) /\ s[j - 1] # CH.lparen })

NaiveEnds(s, p) == { q \in (p + 2)..Len(s) : NaiveDepth(s, p, q) = 0 }

ScanEnds(s, p) == { q \in (p + 2)..Len(s) : ScanDepth(s, p, q) = 0 }

Min(S) == CHOOSE m \in S : \A n \in S : m <= n

\* the call returns the Block comment that ends at the first of ends, or
\* fails with DanglingBlockComment when there is none
BlockEndsAtFirst(ends) ==
    IF ends # {}
    THEN /\ LastSome'
         /\ LastFrag'.kind = "Block"
         /\ LastFrag'.start = ByteOff(input, pos)
         /\ LastFrag'.end = ByteOff(input, Min(ends))
         /\ pos' = Min(ends)
    ELSE /\ LastErr'
         /\ LastError'.kind = "DanglingBlockComment"

(***************************************************************************)
(* C17 (as amended): while a block comment is scanned the depth goes up at *)
(* each `(;` and down at each `;)` whose `;` is not the `;` of a `(;`      *)
(* right before it: where an opener and a closer share a `;` (as in `(;)`) *)
(* only the opener counts. The comment ends at the first position where    *)
(* the depth so computed reaches 0.                                        *)
(***************************************************************************)
C17_Depth == [][AtBlock => BlockEndsAtFirst(ScanEnds(input, pos))]_vars

\* C17 as stated: every occurrence of `;)` counts, also in `(;)`
C17_DepthEveryOccurrence == [][AtBlock => BlockEndsAtFirst(NaiveEnds(input, pos))]_vars

\* a Block comment that begins with `(;)`, whose `;)` did not close it
C17_Witness ==
    /\ LastSome
    /\ LastFrag.kind = "Block"
    /\ SubSeq(FragChars(input, LastFrag), 1, 3) = << CH.lparen, CH.semi, CH.rparen >>

(***************************************************************************)
(* C18: when the end of the input is reached inside a block comment before *)
(* its depth is back to 0 (also after a lone `;` at the end, or when only  *)
(* an inner comment was closed) the call fails with DanglingBlockComment   *)
(* at the byte offset of the outermost opening `(;`, wherever that is in   *)
(* the input; the whole rest of the input has been read and no fragment is *)
(* returned.                                                               *)
(***************************************************************************)
C18_Dangling ==
    [][/\ (AtBlock /\ ScanEnds(input, pos) = {}) =>
            /\ LastErr'
            /\ LastError' = [pos |-> ByteOff(input, pos),
                             kind |-> "DanglingBlockComment", arg |-> << >>]
            /\ frags' = frags
            /\ pos' = Len(input)
       /\ (LastErr' /\ LastError'.kind = "DanglingBlockComment") =>
            /\ AtBlock
            /\ LastError'.pos = ByteOff(input, pos)]_vars

\* a dangling comment that is not at offset 0 and holds a closed comment
C18_Witness ==
    /\ LastErr
    /\ LastError.kind = "DanglingBlockComment"
    /\ LastError.pos > 0
    /\ \E a \in (CharIdx(input, LastError.pos) + 3)..Len(input) :
         \E b \in a..Len(input) : IsNested(SubSeq(input, a, b))
    /\ input[Len(input)] = CH.semi

AtLine == StartsWithAt(input, pos, << CH.semi, CH.semi >>)

\* where the line that starts after p stops: before the next line-feed, or
\* at the end of the input
LineStop(s, p) ==
    CHOOSE q \in p..Len(s) :
        /\ q = Len(s) \/ s[q + 1] = CH.lf
        /\ \A k \in (p + 1)..q : s[k] # CH.lf

(***************************************************************************)
(* C19: where the input at the cursor starts with `;;` the call returns a  *)
(* Line comment that spans from the `;;` up to, and not including, the     *)
(* next line-feed, or to the end of the input when there is none; a        *)
(* carriage return before the line-feed is part of the comment, and the    *)
(* line-feed begins the next fragment.                                     *)
(***************************************************************************)
C19_LineComment ==
    /\ [][AtLine =>
            /\ LastSome'
            /\ frags' = Append(frags, LastFrag')
            /\ LastFrag'.kind = "Line"
            /\ LastFrag'.start = ByteOff(input, pos)
            /\ LastFrag'.end = ByteOff(input, LineStop(input, pos))
            /\ pos' = LineStop(input, pos)]_vars
    /\ [](\A k \in 1..Len(frags) :
             frags[k].kind = "Line" =>
                 /\ SubSeq(FragChars(input, frags[k]), 1, 2) = << CH.semi, CH.semi >>
                 /\ ~Has(FragChars(input, frags[k]), CH.lf)
                 /\ k < Len(frags) =>
                      /\ frags[k + 1].kind = "Whitespace"
                      /\ frags[k + 1].start = frags[k].end
                      /\ FragChars(input, frags[k + 1])[1] = CH.lf)

\* a Line comment that ends with a carriage return, the line-feed after it
\* returned as the next fragment
C19_Witness ==
    \E k \in 1..(Len(frags) - 1) :
        /\ frags[k].kind = "Line"
        /\ FragChars(input, frags[k])[Len(FragChars(input, frags[k]))] = CH.cr
        /\ frags[k + 1].kind = "Whitespace"
        /\ FragChars(input, frags[k + 1])[1] = CH.lf

\* space, line-feed, carriage return and tab
WsChars == {32, 10, 13, 9}

AtWs == pos < Len(input) /\ input[pos + 1] \in WsChars

\* the end of the maximal run of whitespace characters that starts after p
WsRunEnd(s, p) ==
    CHOOSE q \in p..Len(s) :
        /\ \A k \in (p + 1)..q : s[k] \in WsChars
        /\ q = Len(s) \/ s[q + 1] \notin WsChars

(***************************************************************************)
(* C20: a Whitespace fragment is the maximal run of space, line-feed,      *)
(* carriage-return and tab characters that starts at the cursor: a call    *)
(* with one of them at the cursor returns that run and never an error, the *)
(* character after a Whitespace fragment, if there is one, is none of the  *)
(* four, and two Whitespace fragments are never adjacent.                  *)
(***************************************************************************)
C20_Whitespace ==
    /\ [][AtWs =>
            /\ LastSome'
            /\ frags' = Append(frags, LastFrag')
            /\ LastFrag'.kind = "Whitespace"
            /\ LastFrag'.start = ByteOff(input, pos)
            /\ LastFrag'.end = ByteOff(input, WsRunEnd(input, pos))
            /\ pos' = WsRunEnd(input, pos)]_vars
    /\ [](\A k \in 1..Len(frags) :
             frags[k].kind = "Whitespace" =>
                 /\ FragChars(input, frags[k]) # << >>
                 /\ \A j \in 1..Len(FragChars(input, frags[k])) :
                      FragChars(input, frags[k])[j] \in WsChars
                 /\ \/ frags[k].end = InputLen(input)
                    \/ input[CharIdx(input, frags[k].end) + 1] \notin WsChars
                 /\ (k < Len(frags) /\ frags[k + 1].kind = "Whitespace")
                    => frags[k + 1].start # frags[k].end)

\* a Whitespace fragment of a tab and a carriage return, followed by a token
C20_Witness ==
    \E k \in 1..(Len(frags) - 1) :
        /\ frags[k].kind = "Whitespace"
        /\ Has(FragChars(input, frags[k]), 9)
        /\ Has(FragChars(input, frags[k]), 13)
        /\ frags[k + 1].start = frags[k].end

(***************************************************************************)
(* Vocabulary of the claims about errors                                   *)
(***************************************************************************)
\* the end of the last fragment returned so far
LastEnd == IF frags = << >> THEN 0 ELSE frags[Len(frags)].end

\* the character at the cursor can begin no fragment
AtUnexpected ==
    /\ pos < Len(input)
    /\ input[pos + 1] \notin WsChars
    /\ ~AtLine
    /\ ~AtBlock
    /\ input[pos + 1] \notin {CH.lparen, CH.rparen, CH.quote}
    /\ ~is_idchar(input[pos + 1])

(***************************************************************************)
(* C21: when the character at the cursor is not whitespace, does not start *)
(* a comment, and is not `(`, `)`, `"` or an identifier character, the     *)
(* call fails with Unexpected(that character) at the byte offset of that   *)
(* character and returns no fragment; when no call has failed before, that *)
(* offset is the end of the last returned fragment.                        *)
(***************************************************************************)
C21_Unexpected ==
    [][AtUnexpected =>
         /\ LastErr'
         /\ LastError' = [pos |-> ByteOff(input, pos), kind |-> "Unexpected",
                          arg |-> << input[pos + 1] >>]
         /\ frags' = frags
         /\ errs = 0 => LastError'.pos = LastEnd]_vars

\* Unexpected of a two-byte character, after two fragments were returned
C21_Witness ==
    /\ LastErr
    /\ LastError.kind = "Unexpected"
    /\ LastError.arg = << EAcute >>
    /\ Len(frags) >= 2
    /\ LastError.pos = LastEnd

(***************************************************************************)
(* Vocabulary of the claims about string literals                          *)
(***************************************************************************)
\* the input begins with a quote and a backslash
AtEscape == pos = 0 /\ StartsWithAt(input, 0, << CH.quote, CH.backslash >>)

\* what parse would return for a String that covers the first n characters
StringOf(n, bytes) ==
    [kind |-> "String", start |-> 0, end |-> ByteOff(input, n), val |-> bytes]

(***************************************************************************)
(* C22: a string literal whose body is a backslash and two hexadecimal     *)
(* digits, in either letter case, decodes to the one byte whose value the  *)
(* two digits spell, for all 256 values; a backslash, one hexadecimal      *)
(* digit and then a character that is not a hexadecimal digit fails with   *)
(* InvalidHexDigit(that character).                                        *)
(***************************************************************************)
C22_HexEscape ==
    [][(AtEscape /\ Len(input) >= 4 /\ input[3] \in HexDigits) =>
         /\ (Len(input) = 5 /\ input[4] \in HexDigits /\ input[5] = CH.quote) =>
              /\ LastSome'
              /\ LastFrag' = StringOf(5, << 16 * HexVal(input[3]) + HexVal(input[4]) >>)
         /\ input[4] \notin HexDigits =>
              /\ LastErr'
              /\ LastError' = [pos |-> 3, kind |-> "InvalidHexDigit", arg |-> << input[4] >>]]_vars

\* the byte 0xFA, spelled with an upper-case and a lower-case digit
C22_Witness ==
    /\ LastSome
    /\ LastFrag.kind = "String"
    /\ LastFrag.val = << 250 >>
    /\ input = << CH.quote, CH.backslash, CH.F, CH.a, CH.quote >>

\* a character that stands for itself in a string literal
IsPlainStrChar(c) == c \notin {CH.quote, CH.backslash} /\ c >= 32 /\ c # 127

\* the index of the first backslash of the literal, all before it being plain
FirstEscape == FirstIdx(input, {CH.backslash})

AtPlainThenEscape ==
    /\ pos = 0
    /\ Len(input) >= 1
    /\ input[1] = CH.quote
    /\ FirstEscape < Len(input)
    /\ \A k \in 2..(FirstEscape - 1) : IsPlainStrChar(input[k])

\* the six escapes of one character and the byte each stands for
EscByte ==
    [c \in {34, 39, 116, 110, 114, 92} |->
        CASE c = 34 -> 34 [] c = 39 -> 39 [] c = 116 -> 9
          [] c = 110 -> 10 [] c = 114 -> 13 [] c = 92 -> 92]

(***************************************************************************)
(* C23: in a string literal the escapes `\"`, `\'`, `\t`, `\n`, `\r` and   *)
(* `\\` each decode to their single byte, and a backslash followed by a    *)
(* character that is none of these six, nor `u`, nor a hexadecimal digit   *)
(* fails with InvalidStringEscape(that character) at the byte offset of    *)
(* that character.                                                         *)
(***************************************************************************)
C23_SimpleEscape ==
    [][AtPlainThenEscape =>
         /\ (/\ input[FirstEscape + 1] \in DOMAIN EscByte
             /\ Len(input) = FirstEscape + 2
             /\ input[FirstEscape + 2] = CH.quote) =>
              /\ LastSome'
              /\ LastFrag' = StringOf(Len(input),
                                      Bytes(SubSeq(input, 2, FirstEscape - 1))
                                      \o << EscByte[input[FirstEscape + 1]] >>)
         /\ input[FirstEscape + 1] \notin (DOMAIN EscByte) \cup {CH.u} \cup HexDigits =>
              /\ LastErr'
              /\ LastError' = [pos |-> ByteOff(input, FirstEscape),
                               kind |-> "InvalidStringEscape",
                               arg |-> << input[FirstEscape + 1] >>]]_vars

\* `\x` after a two-byte character: the error is at byte offset 4
C23_Witness ==
    /\ LastErr
    /\ LastError = [pos |-> 4, kind |-> "InvalidStringEscape", arg |-> << CH.x >>]
    /\ input[2] = EAcute

\* the characters that do not stand for themselves in a string literal
NonPlainStrChars == {CH.quote, CH.backslash} \cup (0..31) \cup {127}

\* the first index of s from b on that holds a character of S, or Len(s) + 1
FirstFrom(s, b, S) ==
    CHOOSE k \in b..(Len(s) + 1) :
        /\ k = Len(s) + 1 \/ s[k] \in S
        /\ \A j \in b..(k - 1) : s[j] \notin S

\* where the text of the literal begins: after the quote, or after a first \n
TextStart == IF StartsWithAt(input, 1, << CH.backslash, CH.n >>) THEN 4 ELSE 2

FirstNonPlain == FirstFrom(input, TextStart, NonPlainStrChars)

AtLiteral == pos = 0 /\ Len(input) >= 1 /\ input[1] = CH.quote

(***************************************************************************)
(* C24: an unescaped character below 0x20 or equal to 0x7F in a string     *)
(* literal (line-feed and tab among them) fails with InvalidStringElement  *)
(* of that character at its byte offset; every other unescaped character   *)
(* except `"` and `\` is accepted and stands for its UTF-8 bytes.          *)
(***************************************************************************)
C24_StringElement ==
    [][(AtLiteral /\ FirstNonPlain <= Len(input)) =>
         /\ (input[FirstNonPlain] < 32 \/ input[FirstNonPlain] = 127) =>
              /\ LastErr'
              /\ LastError' = [pos |-> ByteOff(input, FirstNonPlain - 1),
                               kind |-> "InvalidStringElement",
                               arg |-> << input[FirstNonPlain] >>]
              /\ frags' = frags
         /\ input[FirstNonPlain] = CH.quote =>
              /\ LastSome'
              /\ LastFrag' = StringOf(FirstNonPlain,
                                      (IF TextStart = 4 THEN << 10 >> ELSE << >>)
                                      \o Bytes(SubSeq(input, TextStart, FirstNonPlain - 1)))]_vars

\* a tab after a two-byte character is rejected at byte offset 3
C24_Witness ==
    /\ LastErr
    /\ LastError = [pos |-> 3, kind |-> "InvalidStringElement", arg |-> << 9 >>]
    /\ input[2] = EAcute

(***************************************************************************)
(* Vocabulary of the claims about \u{...} escapes                          *)
(***************************************************************************)
UnicodeOpenSeq == << CH.quote, CH.backslash, CH.u, CH.lbrace >>

AtUnicode == pos = 0 /\ StartsWithAt(input, 0, UnicodeOpenSeq)

\* the index of the last character of the run of hexadecimal digits and
\* underscores that follows `\u{`
URunEnd == FirstFrom(input, 5, StrChars \ (HexDigits \cup {CH.us})) - 1

URun == SubSeq(input, 5, URunEnd)

\* the digits of the run without underscores and leading zeros
UDigits == StripZeros(NoUs(URun))

\* the number of hexadecimal digits of u32::MAX
U32HexDigits == 8

\* the value of the run as the two 16-bit halves << low, high >> of a u32
UValue == << Magnitude(UDigits)[1], Magnitude(UDigits)[2] >>

\* the value is a Unicode scalar: at most 0x10FFFF and not a surrogate
UIsScalar ==
    /\ UValue[2] <= 16
    /\ ~(UValue[2] = 0 /\ UValue[1] \in 55296..57343)

UCodePoint == UValue[2] * 65536 + UValue[1]

(***************************************************************************)
(* C25: the value of a `\u{...}` escape is an unsigned 32-bit magnitude: a *)
(* digit run whose value exceeds 2^32 - 1 fails with NumberTooBig; a value *)
(* that fits but is not a Unicode scalar (a surrogate, or above 0x10FFFF)  *)
(* fails with InvalidUnicodeValue(value); a scalar decodes to its UTF-8    *)
(* encoding; leading zeros never cause NumberTooBig.                       *)
(***************************************************************************)
C25_UnicodeValue ==
    [][(AtUnicode /\ ValidDigitRun(URun, HexDigits)) =>
         /\ Len(UDigits) > U32HexDigits =>
              LastErr' /\ LastError'.kind = "NumberTooBig"
         /\ Len(UDigits) <= U32HexDigits =>
              ~(LastErr' /\ LastError'.kind = "NumberTooBig")
         /\ (Len(UDigits) <= U32HexDigits /\ ~UIsScalar) =>
              /\ LastErr'
              /\ LastError'.kind = "InvalidUnicodeValue"
              /\ LastError'.arg = UValue
         /\ (/\ Len(UDigits) <= U32HexDigits
             /\ UIsScalar
             /\ SubSeq(input, URunEnd + 1, Len(input)) = << CH.rbrace, CH.quote >>) =>
              /\ LastSome'
              /\ LastFrag' = StringOf(Len(input), Utf8(UCodePoint))]_vars

\* \u{ffffffff}: the largest u32, which is not a scalar
C25_Witness ==
    /\ LastErr
    /\ LastError.kind = "InvalidUnicodeValue"
    /\ LastError.arg = << 65535, 65535 >>
    /\ StartsWithAt(input, 0, UnicodeOpenSeq)

UClosed == SubSeq(input, URunEnd + 1, Len(input)) = << CH.rbrace, CH.quote >>

\* an underscore of the run that is not right between two hexadecimal digits
UBadUnderscore ==
    \E k \in 1..Len(URun) :
        /\ URun[k] = CH.us
        /\ \/ k = 1
           \/ k = Len(URun)
           \/ URun[k - 1] = CH.us
           \/ URun[k + 1] = CH.us

EofError == [pos |-> Len(Bytes(input)), kind |-> "UnexpectedEof", arg |-> << >>]

\* the input ends in the text of the literal, right after a backslash, after
\* the first digit of a hexadecimal escape, or after the u of `\u`
EndsInText ==
    \/ FirstNonPlain = Len(input) + 1
    \/ input = << CH.quote, CH.backslash, CH.u >>
    \/ FirstNonPlain = Len(input) /\ input[Len(input)] = CH.backslash
    \/ /\ FirstNonPlain = Len(input) - 1
       /\ input[Len(input) - 1] = CH.backslash
       /\ input[Len(input)] \in HexDigits

\* the input ends inside the braces of a \u{...} escape: after the brace, or
\* in a digit run (that began with a digit and has not overflowed)
EndsInUnicode ==
    /\ StartsWithAt(input, 0, UnicodeOpenSeq)
    /\ URunEnd = Len(input)
    /\ URun # << >> => (URun[1] \in HexDigits /\ Len(UDigits) <= U32HexDigits)

(***************************************************************************)
(* C28 (as amended): when the end of the input is reached after an opening *)
(* `"` and before the closing quote (in plain text, right after a          *)
(* backslash, after the first digit of a hex escape, or inside a `\u{...}` *)
(* escape) the call fails with UnexpectedEof at the byte offset that is    *)
(* the length of the input, except when the input ends inside the digit    *)
(* run of a `\u{...}` escape and that run ends with an underscore (the     *)
(* failure is LoneUnderscore) or its value is not a Unicode scalar (the    *)
(* failure is InvalidUnicodeValue).                                        *)
(***************************************************************************)
C28_UnexpectedEof ==
    [][AtLiteral =>
         /\ EndsInText => (LastErr' /\ LastError' = EofError /\ frags' = frags)
         /\ (EndsInUnicode /\ URun # << >> /\ URun[Len(URun)] = CH.us) =>
              /\ LastErr'
              /\ LastError' = [pos |-> Len(Bytes(input)), kind |-> "LoneUnderscore",
                               arg |-> << >>]
         /\ (EndsInUnicode /\ ValidDigitRun(URun, HexDigits) /\ ~UIsScalar) =>
              /\ LastErr'
              /\ LastError'.kind = "InvalidUnicodeValue"
              /\ LastError'.arg = UValue
         /\ (EndsInUnicode /\ (URun = << >> \/ (ValidDigitRun(URun, HexDigits) /\ UIsScalar))) =>
              (LastErr' /\ LastError' = EofError /\ frags' = frags)]_vars

\* C28 as stated: UnexpectedEof wherever in the literal the input ends
C28_AlwaysUnexpectedEof ==
    [][(AtLiteral /\ (EndsInText \/ EndsInUnicode)) => (LastErr' /\ LastError' = EofError)]_vars

\* the input ends after the first digit of a hex escape that follows a
\* two-byte character
C28_Witness ==
    /\ LastErr
    /\ LastError = EofError
    /\ LastError.pos > Len(input)
    /\ input[Len(input)] \in HexDigits
    /\ input[Len(input) - 1] = CH.backslash

\* the number of consecutive backslashes right before index k of the span r
\* (the opening quote at index 1 is not among them)
BackslashesBefore(r, k) ==
    CHOOSE j \in 0..(k - 2) :
        /\ \A i \in (k - j)..(k - 1) : r[i] = CH.backslash
        /\ j = k - 2 \/ r[k - j - 1] # CH.backslash

\* the quote at index k of the span r is not escaped
UnescapedQuote(r, k) == r[k] = CH.quote /\ BackslashesBefore(r, k) % 2 = 0

\* the span r runs from an opening quote through the first unescaped quote
QuoteToQuote(r) ==
    /\ Len(r) >= 2
    /\ r[1] = CH.quote
    /\ UnescapedQuote(r, Len(r))
    /\ \A k \in 2..(Len(r) - 1) : ~UnescapedQuote(r, k)

(***************************************************************************)
(* C29: the span of a String token runs from the opening `"` through the   *)
(* first unescaped `"` after it, both included; a quote that a backslash   *)
(* escapes never ends the literal; and a literal without any backslash     *)
(* has as its value the UTF-8 bytes between the two quotes.                *)
(***************************************************************************)
C29_StringSpan ==
    \A k \in 1..Len(frags) :
        frags[k].kind = "String" =>
            /\ QuoteToQuote(FragChars(input, frags[k]))
            /\ ~Has(FragChars(input, frags[k]), CH.backslash) =>
                 frags[k].val = SubSeq(Bytes(input), frags[k].start + 2, frags[k].end - 1)

\* a literal with an escaped quote inside and a quote left after it
C29_Witness ==
    /\ Len(frags) >= 1
    /\ frags[1].kind = "String"
    /\ frags[1].val = << CH.quote >>
    /\ frags[1].end < Len(Bytes(input))
    /\ input[Len(input)] = CH.quote
    /\ \E k \in 3..(Len(FragChars(input, frags[1])) - 1) :
           /\ FragChars(input, frags[1])[k] = CH.quote
           /\ FragChars(input, frags[1])[k - 1] = CH.backslash

\* the fragment f as it would be returned from an input that is only its span
Alone(f) == [f EXCEPT !.start = 0, !.end = f.end - f.start]

\* the first call of a lexer on the characters r returns f and consumes r
RelexGives(r, f) == parse(r, 0) = RSome(Len(r), f)

(***************************************************************************)
(* C30: lexing the span of any token the lexer returned, as an input of    *)
(* its own, yields on the first call a token of the same kind and value    *)
(* that covers the whole span, with nothing of the span left over.         *)
(***************************************************************************)
C30_Relex ==
    \A k \in 1..Len(frags) :
        frags[k].kind \in TokenKinds =>
            RelexGives(FragChars(input, frags[k]), Alone(frags[k]))

\* a float with a sign that was returned after another fragment and before
\* the end of the input
C30_Witness ==
    \E k \in 2..Len(frags) :
        /\ frags[k].kind = "Float"
        /\ frags[k].start > 0
        /\ frags[k].end < Len(Bytes(input))
        /\ FragChars(input, frags[k])[1] = CH.minus

====
